---- MODULE Spec2Model ----
(***************************************************************************)
(* Model of go/stellar/batch.go: Batch, PrepareBatchPayments,              *)
(* prepareBatchPayment{,Direct,Relay}, submitBatchTx, makeResultError and  *)
(* calculateStats.                                                         *)
(*                                                                         *)
(* One run of Batch is modelled.  The main goroutine is followed by pc;    *)
(* each prepare goroutine by task[p]; each chat goroutine is an element of *)
(* chatRunning.  The clock `now` counts seconds; it advances only while    *)
(* some goroutine is suspended on an RPC, a channel or a timer.            *)
(***************************************************************************)
EXTENDS Integers, Sequences, FiniteSets, Bags, TLC

(* ------------------------------ bounds --------------------------------- *)
\* number of payments in arg.Payments
NumPayments == 2
\* arg.TimeoutSecs of the run
TimeoutSecs == 1

\* the clock starts at 1 and saturates one second after the deadline
MaxClock == TimeoutSecs + 2

(* --------------------------- program constants ------------------------- *)
\* case <-time.After(5 * time.Second)
TickInterval == 5

PayIdx == 1..NumPayments

\* arg.Payments: payment i goes to recipient i (distinct recipients)
Payments == [i \in PayIdx |-> [Recipient |-> i]]

\* libkb.NewNormalizedUsername(payment.Recipient); one username per recipient
NormalizedUsername(recipient) == [user |-> recipient]

\* stellar1.TransactionID(signResult.TxHash): one hash per signed seqno
TxHash(seqno) == [tx |-> seqno]
\* the zero value of stellar1.TransactionID
EmptyTxID == [tx |-> 0]
\* a transaction of the same user that is not part of this batch
ForeignTxID == [tx |-> 0 - 1]

\* stellar1.ToTimeMs(t)
ToTimeMs(t) == t * 1000

\* stellar1.PaymentStatus values; "none" is the zero value of a fresh result
PaymentStatus_PENDING == "pending"
PaymentStatus_COMPLETED == "completed"
PaymentStatus_ERROR == "error"
PaymentStatus_NONE == "none"
\* the statuses a status update can carry
UpdateStatuses == {PaymentStatus_PENDING, PaymentStatus_COMPLETED, PaymentStatus_ERROR}

\* stellar1.PaymentStatusRevMap
PaymentStatusRevMap(s) ==
    CASE s = PaymentStatus_PENDING -> "PENDING"
      [] s = PaymentStatus_COMPLETED -> "COMPLETED"
      [] s = PaymentStatus_ERROR -> "ERROR"
      [] OTHER -> "NONE"

\* Go integer division truncates toward zero
Quot(a, b) == IF a >= 0 THEN a \div b ELSE 0 - ((0 - a) \div b)

Min(a, b) == IF a <= b THEN a ELSE b

VARIABLES
    pc,            \* position of the goroutine running Batch
    err,           \* the error Batch returns ("nil" while none)
    now,           \* wall clock, seconds
    startTime,     \* startTime := time.Now()
    timeoutSecs,   \* arg.TimeoutSecs
    res,           \* res stellar1.BatchResultLocal
    spSeq,         \* last seqno handed out by the SeqnoProvider sp
    task,          \* position of each prepare goroutine
    taskRes,       \* the *MiniPrepared each prepare goroutine has built
    preparedList,  \* preparedList / prepared
    listener,      \* "none", "held", "removed"
    i,             \* loop index of the submit loop
    inRPC,         \* TRUE while the submit RPC of prepared[i] is outstanding
    bpResult,      \* the bpResult of the current iteration
    resultList,    \* resultList
    waiting,       \* waiting map[TransactionID]int
    waitingCount,  \* waitingCount
    timedOut,      \* timedOut
    timerElapsed,  \* seconds since the current time.After(5s) was created
    wg,            \* chatWaitGroup counter
    chatRunning,   \* bag of chat goroutines that have not called Done
    chatSent,      \* bag of chatSendPaymentMessageTo calls made
    submitLog,     \* history: begin/end events of the submit RPCs
    submitAnswers, \* history: what the submit RPC of prepared[k] returned
    removeCalls,   \* history: number of RemoveListener calls made
    lastOp         \* history: the step taken last

vars == <<pc, err, now, startTime, timeoutSecs, res, spSeq, task, taskRes,
          preparedList, listener, i, inRPC, bpResult, resultList, waiting,
          waitingCount, timedOut, timerElapsed, wg, chatRunning, chatSent,
          submitLog, submitAnswers, removeCalls, lastOp>>

\* zero value of stellar1.BatchPaymentResult
ZeroResult ==
    [Username |-> NormalizedUsername(0), StartTime |-> 0, SubmittedTime |-> 0,
     EndTime |-> 0, TxID |-> EmptyTxID, Status |-> PaymentStatus_NONE,
     StatusDescription |-> "", Error |-> "nil"]

\* zero value of stellar1.BatchResultLocal
ZeroBatchResult ==
    [StartTime |-> 0, PreparedTime |-> 0, AllSubmittedTime |-> 0, EndTime |-> 0,
     Payments |-> << >>,
     OverallDurationMs |-> 0, PrepareDurationMs |-> 0, SubmitDurationMs |-> 0,
     WaitDurationMs |-> 0,
     CountSuccess |-> 0, CountPending |-> 0, CountError |-> 0,
     AvgDurationMs |-> 0, AvgSuccessDurationMs |-> 0, AvgErrorDurationMs |-> 0]

\* &MiniPrepared{Username: ...}: Seqno 0, TxID "", Error nil.  The Direct and
\* Relay posts only select the submit RPC and are left out.
MiniPrepared(recipient) ==
    [Username |-> NormalizedUsername(recipient), Seqno |-> 0, TxID |-> EmptyTxID,
     Error |-> "nil"]

\* lastOp when the last step was not a status update
NoOp == [op |-> "other", txID |-> EmptyTxID]

Init ==
    /\ pc = "lookup"
    /\ err = "nil"
    /\ now = 1
    /\ startTime = 1
    /\ timeoutSecs = TimeoutSecs
    /\ res = [ZeroBatchResult EXCEPT !.StartTime = ToTimeMs(1)]
    /\ spSeq = 0
    /\ task = [p \in PayIdx |-> "idle"]
    /\ taskRes = [p \in PayIdx |-> MiniPrepared(Payments[p].Recipient)]
    /\ preparedList = << >>
    /\ listener = "none"
    /\ i = 1
    /\ inRPC = FALSE
    /\ bpResult = ZeroResult
    /\ resultList = << >>
    /\ waiting = << >>
    /\ waitingCount = 0
    /\ timedOut = FALSE
    /\ timerElapsed = 0
    /\ wg = 0
    /\ chatRunning = EmptyBag
    /\ chatSent = EmptyBag
    /\ submitLog = << >>
    /\ submitAnswers = << >>
    /\ removeCalls = 0
    /\ lastOp = NoOp


\* the deferred calls that run when Batch returns: release the listener if it
\* was acquired, and set res.EndTime if it is still 0
Deferred(r) == IF r.EndTime = 0 THEN [r EXCEPT !.EndTime = ToTimeMs(now)] ELSE r

DeferredListener == IF listener = "held" THEN "removed" ELSE listener

\* the deferred RemoveListener is never run
DeferredRemoveCalls_Never(n) == n

\* defer DefaultLoader(mctx.G()).RemoveListener(listenerID) is registered only
\* once the listener has been acquired, and runs once at the return
DeferredRemoveCalls(n) == IF listener = "held" THEN n + 1 ELSE n

(* ------------------------------ the clock ------------------------------ *)
\* some goroutine is suspended on an RPC, a channel or a timer
Suspended ==
    \/ pc = "collect"
    \/ inRPC
    \/ pc = "confirm" /\ waitingCount > 0 /\ ~timedOut
    \/ pc = "chatwait" /\ wg > 0

\* one second passes
Tick ==
    /\ Suspended
    /\ \/ now < MaxClock
       \/ pc = "confirm" /\ timerElapsed < TickInterval
    /\ now' = Min(now + 1, MaxClock)
    /\ timerElapsed' = IF pc = "confirm" THEN Min(timerElapsed + 1, TickInterval)
                       ELSE timerElapsed
    /\ lastOp' = NoOp
    /\ UNCHANGED <<pc, err, startTime, timeoutSecs, res, spSeq, task, taskRes,
                   preparedList, listener, i, inRPC, bpResult, resultList,
                   waiting, waitingCount, timedOut, wg, chatRunning, chatSent,
                   submitLog,
                   submitAnswers, removeCalls>>

(* --------------------------- sender lookup ----------------------------- *)

\* the prepare goroutines are started before the error of the lookup is looked at
LookupSenderFail_PrepareStarted ==
    /\ pc = "lookup"
    /\ pc' = "done"
    /\ err' = "sender lookup failed"
    /\ res' = Deferred(res)
    /\ task' = [p \in PayIdx |-> "start"]
    /\ listener' = DeferredListener
    /\ removeCalls' = DeferredRemoveCalls(removeCalls)
    /\ lastOp' = NoOp
    /\ UNCHANGED <<now, startTime, timeoutSecs, spSeq, taskRes,
                   preparedList, i, inRPC, bpResult, resultList, waiting,
                   waitingCount, timedOut, timerElapsed, wg, chatRunning,
                   chatSent, submitLog,
                   submitAnswers>>

\* LookupSenderSeed fails: return res, err
LookupSenderFail ==
    /\ pc = "lookup"
    /\ pc' = "done"
    /\ err' = "sender lookup failed"
    /\ res' = Deferred(res)
    /\ listener' = DeferredListener
    /\ removeCalls' = DeferredRemoveCalls(removeCalls)
    /\ lastOp' = NoOp
    /\ UNCHANGED <<now, startTime, timeoutSecs, spSeq, task, taskRes,
                   preparedList, i, inRPC, bpResult, resultList, waiting,
                   waitingCount, timedOut, timerElapsed, wg, chatRunning,
                   chatSent, submitLog,
                   submitAnswers>>

\* LookupSenderSeed succeeds; PrepareBatchPayments starts one goroutine per
\* payment and begins to collect
LookupSenderOk ==
    /\ pc = "lookup"
    /\ pc' = "collect"
    /\ task' = [p \in PayIdx |-> "start"]
    /\ lastOp' = NoOp
    /\ UNCHANGED <<err, now, startTime, timeoutSecs, res, spSeq, taskRes,
                   preparedList, listener, i, inRPC, bpResult, resultList,
                   waiting, waitingCount, timedOut, timerElapsed, wg,
                   chatRunning, chatSent, submitLog,
                   submitAnswers, removeCalls>>

(* ------------------------- prepare goroutines -------------------------- *)
\* A prepare goroutine touches shared state only through the SeqnoProvider, so
\* each path through prepareBatchPayment is one step.
PrepUnchanged ==
    UNCHANGED <<pc, err, now, startTime, timeoutSecs, res, preparedList,
                listener, i, inRPC, bpResult, resultList, waiting,
                waitingCount, timedOut, timerElapsed, wg, chatRunning,
                chatSent, submitLog, lastOp,
                   submitAnswers, removeCalls>>

\* sp.SequenceForAccount: the next seqno
NextSeqno(seq) == seq + 1


\* the recipient is looked up after the transaction was numbered
PrepareLookupFail_AfterSeqno(p) ==
    /\ task[p] = "start"
    /\ taskRes' = [taskRes EXCEPT ![p].Error = "error looking up recipient"]
    /\ task' = [task EXCEPT ![p] = "send"]
    /\ spSeq' = NextSeqno(spSeq)
    /\ PrepUnchanged

\* prepareBatchPayment: LookupRecipient fails
PrepareLookupFail(p) ==
    /\ task[p] = "start"
    /\ taskRes' = [taskRes EXCEPT ![p].Error = "error looking up recipient"]
    /\ task' = [task EXCEPT ![p] = "send"]
    /\ UNCHANGED spSeq
    /\ PrepUnchanged

\* prepareBatchPaymentDirect returns before result.Direct is set:
\* isAccountFunded fails, or the account is unfunded and the amount is below
\* minAmountCreateAccountXLM
PrepareDirectFail(p) ==
    /\ task[p] = "start"
    /\ \E e \in {"collaborator error",
                 "you must send at least 1 XLM to fund the account"} :
         taskRes' = [taskRes EXCEPT ![p].Error = e]
    /\ task' = [task EXCEPT ![p] = "send"]
    /\ UNCHANGED spSeq
    /\ PrepUnchanged

\* prepareBatchPaymentRelay returns before relays.Create: the amount is below
\* minAmountRelayXLM, or relays.GetKey fails
PrepareRelayFail(p) ==
    /\ task[p] = "start"
    /\ \E e \in {"you must send at least 2.01 XLM to fund the account",
                 "collaborator error"} :
         taskRes' = [taskRes EXCEPT ![p].Error = e]
    /\ task' = [task EXCEPT ![p] = "send"]
    /\ UNCHANGED spSeq
    /\ PrepUnchanged

\* the signing call (PaymentXLMTransaction, CreateAccountXLMTransaction or
\* relays.Create) fails; the SeqnoProvider may or may not have been asked
PrepareSignFail(p) ==
    /\ task[p] = "start"
    /\ taskRes' = [taskRes EXCEPT ![p].Error = "collaborator error"]
    /\ \E consumed \in BOOLEAN :
         spSeq' = IF consumed THEN NextSeqno(spSeq) ELSE spSeq
    /\ task' = [task EXCEPT ![p] = "send"]
    /\ PrepUnchanged

\* prepareBatchPaymentDirect: signing succeeds with the next seqno, then
\* NoteEncryptB64 fails; result.Seqno and result.TxID are never assigned
PrepareNoteFail(p) ==
    /\ task[p] = "start"
    /\ spSeq' = NextSeqno(spSeq)
    /\ taskRes' = [taskRes EXCEPT ![p].Error = "error encrypting note"]
    /\ task' = [task EXCEPT ![p] = "send"]
    /\ PrepUnchanged

\* prepareBatchPaymentDirect or prepareBatchPaymentRelay reaches its end:
\* result.Seqno and result.TxID are those of the signed transaction
PrepareOk(p) ==
    /\ task[p] = "start"
    /\ spSeq' = NextSeqno(spSeq)
    /\ taskRes' = [taskRes EXCEPT ![p].Seqno = NextSeqno(spSeq),
                                  ![p].TxID = TxHash(NextSeqno(spSeq))]
    /\ task' = [task EXCEPT ![p] = "send"]
    /\ PrepUnchanged


\* the collector stops one receive short
Collect_OneShort(p) ==
    /\ pc = "collect"
    /\ task[p] = "send"
    /\ task' = [task EXCEPT ![p] = "done"]
    /\ preparedList' = Append(preparedList, taskRes[p])
    /\ pc' = IF Len(preparedList) + 1 >= NumPayments - 1 THEN "sort" ELSE "collect"
    /\ lastOp' = NoOp
    /\ UNCHANGED <<err, now, startTime, timeoutSecs, res, spSeq, taskRes,
                   listener, i, inRPC, bpResult, resultList, waiting,
                   waitingCount, timedOut, timerElapsed, wg, chatRunning,
                   chatSent, submitLog,
                   submitAnswers, removeCalls>>

\* prepared <- ... in goroutine p meets preparedList[i] = <-prepared
Collect(p) ==
    /\ pc = "collect"
    /\ task[p] = "send"
    /\ task' = [task EXCEPT ![p] = "done"]
    /\ preparedList' = Append(preparedList, taskRes[p])
    /\ pc' = IF Len(preparedList) + 1 = NumPayments THEN "sort" ELSE "collect"
    /\ lastOp' = NoOp
    /\ UNCHANGED <<err, now, startTime, timeoutSecs, res, spSeq, taskRes,
                   listener, i, inRPC, bpResult, resultList, waiting,
                   waitingCount, timedOut, timerElapsed, wg, chatRunning,
                   chatSent, submitLog,
                   submitAnswers, removeCalls>>

(* ------------------------------- sorting ------------------------------- *)
RECURSIVE InsertBySeqno_Desc(_, _)
\* the comparison of the sort turned around
InsertBySeqno_Desc(s, x) ==
    IF s = << >> THEN <<x>>
    ELSE IF x.Seqno > s[Len(s)].Seqno
         THEN Append(InsertBySeqno_Desc(SubSeq(s, 1, Len(s) - 1), x), s[Len(s)])
         ELSE Append(s, x)

RECURSIVE InsertBySeqno(_, _)
\* one pass of the insertion sort: x moves left while less(x, its left
\* neighbour), that is while x.Seqno is strictly smaller
InsertBySeqno(s, x) ==
    IF s = << >> THEN <<x>>
    ELSE IF x.Seqno < s[Len(s)].Seqno
         THEN Append(InsertBySeqno(SubSeq(s, 1, Len(s) - 1), x), s[Len(s)])
         ELSE Append(s, x)

\* the list is returned as it was collected
SortBySeqno_NoSort(l) == l

RECURSIVE SortBySeqno(_)

\* sort.Slice(preparedList, less by Seqno).  On a slice this short sort.Slice
\* runs an insertion sort, so entries of equal Seqno keep their order.
SortBySeqno(l) ==
    IF l = << >> THEN << >>
    ELSE InsertBySeqno(SortBySeqno(SubSeq(l, 1, Len(l) - 1)), l[Len(l)])

\* the end of PrepareBatchPayments and res.PreparedTime
SortPrepared ==
    /\ pc = "sort"
    /\ preparedList' = SortBySeqno(preparedList)
    /\ res' = [res EXCEPT !.PreparedTime = ToTimeMs(now)]
    /\ pc' = "listener"
    /\ lastOp' = NoOp
    /\ UNCHANGED <<err, now, startTime, timeoutSecs, spSeq, task, taskRes,
                   listener, i, inRPC, bpResult, resultList, waiting,
                   waitingCount, timedOut, timerElapsed, wg, chatRunning,
                   chatSent, submitLog,
                   submitAnswers, removeCalls>>

(* ------------------------------ listener ------------------------------- *)

\* the listener is asked for only when the submit loop is over
GetListenerFail_AfterSubmit ==
    /\ pc = "confirm"
    /\ pc' = "done"
    /\ err' = "GetListener failed"
    /\ res' = Deferred(res)
    /\ listener' = DeferredListener
    /\ removeCalls' = DeferredRemoveCalls(removeCalls)
    /\ lastOp' = NoOp
    /\ UNCHANGED <<now, startTime, timeoutSecs, spSeq, task, taskRes,
                   preparedList, i, inRPC, bpResult, resultList, waiting,
                   waitingCount, timedOut, timerElapsed, wg, chatRunning,
                   chatSent, submitLog,
                   submitAnswers>>

\* DefaultLoader.GetListener fails: return res, err
GetListenerFail ==
    /\ pc = "listener"
    /\ pc' = "done"
    /\ err' = "GetListener failed"
    /\ res' = Deferred(res)
    /\ listener' = DeferredListener
    /\ removeCalls' = DeferredRemoveCalls(removeCalls)
    /\ lastOp' = NoOp
    /\ UNCHANGED <<now, startTime, timeoutSecs, spSeq, task, taskRes,
                   preparedList, i, inRPC, bpResult, resultList, waiting,
                   waitingCount, timedOut, timerElapsed, wg, chatRunning,
                   chatSent, submitLog,
                   submitAnswers>>


\* the submit loop is entered without the subscription
GetListenerOk_NoSubscribe ==
    /\ pc = "listener"
    /\ UNCHANGED <<listener, removeCalls>>
    /\ resultList' = [k \in 1..Len(preparedList) |-> ZeroResult]
    /\ waiting' = << >>
    /\ i' = 1
    /\ pc' = "submit"
    /\ lastOp' = NoOp
    /\ UNCHANGED <<err, now, startTime, timeoutSecs, res, spSeq, task, taskRes,
                   preparedList, inRPC, bpResult, waitingCount, timedOut,
                   timerElapsed, wg, chatRunning, chatSent, submitLog,
                   submitAnswers>>

\* GetListener succeeds; resultList and waiting are made
GetListenerOk ==
    /\ pc = "listener"
    /\ listener' = "held"
    /\ UNCHANGED removeCalls
    /\ resultList' = [k \in 1..Len(preparedList) |-> ZeroResult]
    /\ waiting' = << >>
    /\ i' = 1
    /\ pc' = "submit"
    /\ lastOp' = NoOp
    /\ UNCHANGED <<err, now, startTime, timeoutSecs, res, spSeq, task, taskRes,
                   preparedList, inRPC, bpResult, waitingCount, timedOut,
                   timerElapsed, wg, chatRunning, chatSent, submitLog,
                   submitAnswers>>

(* ---------------------------- submit loop ------------------------------ *)

\* the error is recorded without its message
makeResultError_NoMessage(r, e) ==
    [r EXCEPT !.EndTime = ToTimeMs(now), !.Status = PaymentStatus_ERROR]


\* the error is recorded without changing the status
makeResultError_NoStatus(r, e) ==
    [r EXCEPT !.EndTime = ToTimeMs(now), !.Error = e]

\* makeResultError(res, err)
makeResultError(r, e) ==
    [r EXCEPT !.EndTime = ToTimeMs(now), !.Error = e,
              !.Status = PaymentStatus_ERROR]

\* bpResult := stellar1.BatchPaymentResult{Username: ..., StartTime: ...}
NewResult(prep) ==
    [ZeroResult EXCEPT !.Username = prep.Username, !.StartTime = ToTimeMs(now)]

\* every submitted payment is put on the waiting list
ShouldWait_Always(r) == TRUE

\* if bpResult.Status == stellar1.PaymentStatus_PENDING { waiting[TxID] = i }
ShouldWait(r) == r.Status = PaymentStatus_PENDING

\* the end of a loop iteration: the waiting entry, StatusDescription,
\* resultList[i] = bpResult, i++; after the last one res.AllSubmittedTime,
\* waitingCount := len(waiting), timedOut := false
EndIteration(r, submitted) ==
    /\ waiting' = IF submitted /\ ShouldWait(r) THEN (r.TxID :> i) @@ waiting
                  ELSE waiting
    /\ resultList' = [resultList EXCEPT
                        ![i] = [r EXCEPT !.StatusDescription =
                                            PaymentStatusRevMap(r.Status)]]
    /\ i' = i + 1
    /\ bpResult' = ZeroResult
    /\ IF i + 1 > Len(preparedList)
       THEN /\ pc' = "confirm"
            /\ res' = [res EXCEPT !.AllSubmittedTime = ToTimeMs(now)]
            /\ waitingCount' = Cardinality(DOMAIN waiting')
            /\ timerElapsed' = 0
       ELSE /\ pc' = "submit"
            /\ UNCHANGED <<res, waitingCount, timerElapsed>>

\* prepared[i].Error != nil: makeResultError(&bpResult, prepared[i].Error)
SubmitSkip ==
    /\ pc = "submit"
    /\ ~inRPC
    /\ preparedList[i].Error # "nil"
    /\ EndIteration(makeResultError(NewResult(preparedList[i]),
                                    preparedList[i].Error), FALSE)
    /\ lastOp' = NoOp
    /\ UNCHANGED <<err, now, startTime, timeoutSecs, spSeq, task, taskRes,
                   preparedList, listener, inRPC, timedOut, wg, chatRunning,
                   chatSent, submitLog,
                   submitAnswers, removeCalls>>

\* submitBatchTx up to the call of SubmitPayment / SubmitRelayPayment
SubmitBegin ==
    /\ pc = "submit"
    /\ ~inRPC
    /\ preparedList[i].Error = "nil"
    /\ bpResult' = NewResult(preparedList[i])
    /\ inRPC' = TRUE
    /\ submitLog' = Append(submitLog, [ev |-> "begin", seqno |-> preparedList[i].Seqno])
    /\ UNCHANGED submitAnswers
    /\ lastOp' = NoOp
    /\ UNCHANGED <<pc, err, now, startTime, timeoutSecs, res, spSeq, task,
                   taskRes, preparedList, listener, i, resultList, waiting,
                   waitingCount, timedOut, timerElapsed, wg, chatRunning,
                   chatSent,
                   removeCalls>>


\* a failed submit RPC is taken for one that the ledger has yet to confirm
submitBatchTx_ErrAsPending(r, prep, answer) ==
    LET r1 == [r EXCEPT !.SubmittedTime = ToTimeMs(now)] IN
    CASE answer = "completed" ->
           [r1 EXCEPT !.TxID = prep.TxID, !.Status = PaymentStatus_COMPLETED,
                      !.EndTime = ToTimeMs(now)]
      [] OTHER ->
           [r1 EXCEPT !.TxID = prep.TxID, !.Status = PaymentStatus_PENDING]

\* the rest of submitBatchTx, given what the submit RPC returned
\*   answer: "err", "pending" (submitRes.Pending) or "completed"
submitBatchTx(r, prep, answer) ==
    LET r1 == [r EXCEPT !.SubmittedTime = ToTimeMs(now)] IN
    CASE answer = "err" -> makeResultError(r1, "submit error")
      [] answer = "pending" ->
           [r1 EXCEPT !.TxID = prep.TxID, !.Status = PaymentStatus_PENDING]
      [] OTHER ->
           [r1 EXCEPT !.TxID = prep.TxID, !.Status = PaymentStatus_COMPLETED,
                      !.EndTime = ToTimeMs(now)]

\* the submit RPC returns answer and the iteration ends
SubmitEndWith(answer) ==
    /\ pc = "submit"
    /\ inRPC
    /\ EndIteration(submitBatchTx(bpResult, preparedList[i], answer), TRUE)
    /\ inRPC' = FALSE
    /\ submitLog' = Append(submitLog, [ev |-> "end", seqno |-> preparedList[i].Seqno])
    /\ submitAnswers' = (i :> answer) @@ submitAnswers
    /\ lastOp' = NoOp
    /\ UNCHANGED <<err, now, startTime, timeoutSecs, spSeq, task, taskRes,
                   preparedList, listener, timedOut, wg, chatRunning, chatSent,
                   removeCalls>>

\* the submit RPC returns and the iteration ends
SubmitEnd == \E answer \in {"err", "pending", "completed"} : SubmitEndWith(answer)

(* ------------------------------ Confirmer ------------------------------ *)

\* the loop runs until the deadline, whatever the waiting count
Looping_UntilTimeout == pc = "confirm" /\ ~timedOut

\* for waitingCount > 0 && !timedOut
Looping == pc = "confirm" /\ waitingCount > 0 /\ ~timedOut

\* time.Since(startTime) > time.Duration(arg.TimeoutSecs)*time.Second
DeadlinePassed == now - startTime > timeoutSecs


\* on reaching the deadline every result still PENDING is closed as an error
TimerFire_MarkError ==
    /\ Looping
    /\ timerElapsed >= TickInterval
    /\ timedOut' = DeadlinePassed
    /\ timerElapsed' = 0
    /\ resultList' =
         [k \in 1..Len(resultList) |->
            IF DeadlinePassed /\ resultList[k].Status = PaymentStatus_PENDING
            THEN makeResultError(resultList[k], "timeout")
            ELSE resultList[k]]
    /\ lastOp' = NoOp
    /\ UNCHANGED <<pc, err, now, startTime, timeoutSecs, res, spSeq, task,
                   taskRes, preparedList, listener, i, inRPC, bpResult,
                   waiting, waitingCount, wg,
                   chatRunning, chatSent, submitLog,
                   submitAnswers, removeCalls>>

\* case <-time.After(5 * time.Second)
TimerFire ==
    /\ Looping
    /\ timerElapsed >= TickInterval
    /\ timedOut' = DeadlinePassed
    /\ timerElapsed' = 0
    /\ lastOp' = NoOp
    /\ UNCHANGED <<pc, err, now, startTime, timeoutSecs, res, spSeq, task,
                   taskRes, preparedList, listener, i, inRPC, bpResult,
                   resultList, waiting, waitingCount, wg,
                   chatRunning, chatSent, submitLog,
                   submitAnswers, removeCalls>>

\* index, ok := waiting[update.TxID]
IsWaiting(w, txID) == txID \in DOMAIN w

\* the delete is left out
WaitingAfterUpdate_NoDelete(w, txID, status) == w

\* the delete is done for every update
WaitingAfterUpdate_DeleteAlways(w, txID, status) ==
    [t \in (DOMAIN w) \ {txID} |-> w[t]]

\* if update.Status != PENDING { delete(waiting, update.TxID) }
WaitingAfterUpdate(w, txID, status) ==
    IF status # PaymentStatus_PENDING
    THEN [t \in (DOMAIN w) \ {txID} |-> w[t]]
    ELSE w


\* a terminal update is stored without stamping the end time
ResultAfterUpdate_NoEndTime(r, status) ==
    [r EXCEPT !.Status = status,
              !.StatusDescription = PaymentStatusRevMap(status)]


\* an update changes the status and leaves the label of the old one
ResultAfterUpdate_NoDescription(r, status) ==
    LET r1 == [r EXCEPT !.Status = status] IN
    IF status # PaymentStatus_PENDING
    THEN [r1 EXCEPT !.EndTime = ToTimeMs(now)]
    ELSE r1

\* resultList[index] after the update
ResultAfterUpdate(r, status) ==
    LET r1 == [r EXCEPT !.Status = status,
                        !.StatusDescription = PaymentStatusRevMap(status)] IN
    IF status # PaymentStatus_PENDING
    THEN [r1 EXCEPT !.EndTime = ToTimeMs(now)]
    ELSE r1

\* if update.Status == COMPLETED { chatWaitGroup.Add(1); go func ... }
SpawnsChat(status) == status = PaymentStatus_COMPLETED


\* the waiting count goes down with every terminal update, found or not
StatusUpdate_CountAlways(txID, status) ==
    /\ Looping
    /\ timerElapsed' = 0
    /\ lastOp' = [op |-> "update", txID |-> txID]
    /\ waitingCount' = IF status # PaymentStatus_PENDING
                       THEN waitingCount - 1 ELSE waitingCount
    /\ IF IsWaiting(waiting, txID)
       THEN LET index == waiting[txID] IN
            /\ resultList' = [resultList EXCEPT
                                ![index] = ResultAfterUpdate(resultList[index], status)]
            /\ waiting' = WaitingAfterUpdate(waiting, txID, status)
            /\ IF SpawnsChat(status)
               THEN /\ wg' = wg + 1
                    /\ chatRunning' = chatRunning (+)
                         SetToBag({[recipient |-> resultList[index].Username,
                                    txID |-> txID]})
               ELSE UNCHANGED <<wg, chatRunning>>
       ELSE UNCHANGED <<resultList, waiting, wg, chatRunning>>
    /\ UNCHANGED <<pc, err, now, startTime, timeoutSecs, res, spSeq, task,
                   taskRes, preparedList, listener, i, inRPC, bpResult,
                   timedOut, chatSent, submitLog,
                   submitAnswers, removeCalls>>

\* case update := <-listenerCh
StatusUpdate(txID, status) ==
    /\ Looping
    /\ timerElapsed' = 0
    /\ lastOp' = [op |-> "update", txID |-> txID]
    /\ IF IsWaiting(waiting, txID)
       THEN LET index == waiting[txID] IN
            /\ resultList' = [resultList EXCEPT
                                ![index] = ResultAfterUpdate(resultList[index], status)]
            /\ waitingCount' = IF status # PaymentStatus_PENDING
                               THEN waitingCount - 1 ELSE waitingCount
            /\ waiting' = WaitingAfterUpdate(waiting, txID, status)
            /\ IF SpawnsChat(status)
               THEN /\ wg' = wg + 1
                    /\ chatRunning' = chatRunning (+)
                         SetToBag({[recipient |-> resultList[index].Username,
                                    txID |-> txID]})
               ELSE UNCHANGED <<wg, chatRunning>>
       ELSE UNCHANGED <<resultList, waitingCount, waiting, wg, chatRunning>>
    /\ UNCHANGED <<pc, err, now, startTime, timeoutSecs, res, spSeq, task,
                   taskRes, preparedList, listener, i, inRPC, bpResult,
                   timedOut, chatSent, submitLog,
                   submitAnswers, removeCalls>>

\* the transaction ids a status update can carry: those of this batch and one
\* of another transaction
UpdateTxIDs ==
    {preparedList[k].TxID : k \in {j \in 1..Len(preparedList) : preparedList[j].Error = "nil"}}
    \cup {ForeignTxID}

\* the loop condition is false
LoopExit ==
    /\ pc = "confirm"
    /\ ~Looping
    /\ pc' = "chatwait"
    /\ lastOp' = NoOp
    /\ UNCHANGED <<err, now, startTime, timeoutSecs, res, spSeq, task, taskRes,
                   preparedList, listener, i, inRPC, bpResult, resultList,
                   waiting, waitingCount, timedOut, timerElapsed, wg,
                   chatRunning, chatSent, submitLog,
                   submitAnswers, removeCalls>>

\* a chat goroutine: chatSendPaymentMessageTo returns (its error is only
\* logged), then chatWaitGroup.Done()
ChatDone(t) ==
    /\ BagIn(t, chatRunning)
    /\ chatRunning' = chatRunning (-) SetToBag({t})
    /\ chatSent' = chatSent (+) SetToBag({t})
    /\ wg' = wg - 1
    /\ lastOp' = NoOp
    /\ UNCHANGED <<pc, err, now, startTime, timeoutSecs, res, spSeq, task,
                   taskRes, preparedList, listener, i, inRPC, bpResult,
                   resultList, waiting, waitingCount, timedOut, timerElapsed,
                   submitLog,
                   submitAnswers, removeCalls>>

(* ------------------------------ statistics ----------------------------- *)
RECURSIVE SumDuration(_, _)
\* sum of p.EndTime - p.StartTime over the payments of l whose status is in S
SumDuration(l, S) ==
    IF l = << >> THEN 0
    ELSE (IF Head(l).Status \in S THEN Head(l).EndTime - Head(l).StartTime ELSE 0)
         + SumDuration(Tail(l), S)


\* every payment is counted, whatever its status
CountStatus_Every(l, S) == Len(l)

CountStatus(l, S) == Cardinality({k \in 1..Len(l) : l[k].Status \in S})

AllStatuses == UpdateStatuses \cup {PaymentStatus_NONE}

\* durationTotal += duration runs for every payment, before the switch
DurationTotal(l) == SumDuration(l, AllStatuses)


\* only the payments that were handed to the ledger are returned
calculateStats_SubmittedOnly(r) ==
    LET Submitted(e) == e.SubmittedTime # 0 IN
    [r EXCEPT !.Payments = SelectSeq(r.Payments, Submitted)]

\* calculateStats(res)
calculateStats(r) ==
    LET l == r.Payments
        success == {PaymentStatus_COMPLETED}
        pending == {PaymentStatus_PENDING}
        other == AllStatuses \ (success \cup pending)
        countSuccess == CountStatus(l, success)
        countPending == CountStatus(l, pending)
        countError == CountStatus(l, other)
        countDone == countSuccess + countError
    IN [r EXCEPT
          !.OverallDurationMs = r.EndTime - r.StartTime,
          !.PrepareDurationMs = r.PreparedTime - r.StartTime,
          !.SubmitDurationMs = r.AllSubmittedTime - r.PreparedTime,
          !.WaitDurationMs = r.EndTime - r.AllSubmittedTime,
          !.CountSuccess = countSuccess,
          !.CountPending = countPending,
          !.CountError = countError,
          !.AvgDurationMs = IF countDone > 0
                            THEN Quot(DurationTotal(l), countDone) ELSE 0,
          !.AvgSuccessDurationMs = IF countSuccess > 0
                                   THEN Quot(SumDuration(l, success), countSuccess)
                                   ELSE 0,
          !.AvgErrorDurationMs = IF countError > 0
                                 THEN Quot(SumDuration(l, other), countError)
                                 ELSE 0]

\* Batch does not wait for the chat goroutines
ChatBarrierOpen_NoWait(n) == TRUE

\* chatWaitGroup.Wait() returns
ChatBarrierOpen(n) == n = 0


\* Batch reports a failed payment through its error return
Finish_ErrOnFailure ==
    /\ pc = "chatwait"
    /\ ChatBarrierOpen(wg)
    /\ res' = calculateStats([res EXCEPT !.Payments = resultList,
                                         !.EndTime = ToTimeMs(now)])
    /\ err' = IF CountStatus(resultList, {PaymentStatus_ERROR}) > 0
              THEN "payment failed" ELSE err
    /\ listener' = DeferredListener
    /\ removeCalls' = DeferredRemoveCalls(removeCalls)
    /\ pc' = "done"
    /\ lastOp' = NoOp
    /\ UNCHANGED <<now, startTime, timeoutSecs, spSeq, task, taskRes,
                   preparedList, i, inRPC, bpResult, resultList, waiting,
                   waitingCount, timedOut, timerElapsed, wg, chatRunning,
                   chatSent, submitLog,
                   submitAnswers>>

\* chatWaitGroup.Wait(); res.Payments, res.EndTime, calculateStats; return res, nil
Finish ==
    /\ pc = "chatwait"
    /\ ChatBarrierOpen(wg)
    /\ res' = calculateStats([res EXCEPT !.Payments = resultList,
                                         !.EndTime = ToTimeMs(now)])
    /\ listener' = DeferredListener
    /\ removeCalls' = DeferredRemoveCalls(removeCalls)
    /\ pc' = "done"
    /\ lastOp' = NoOp
    /\ UNCHANGED <<err, now, startTime, timeoutSecs, spSeq, task, taskRes,
                   preparedList, i, inRPC, bpResult, resultList, waiting,
                   waitingCount, timedOut, timerElapsed, wg, chatRunning,
                   chatSent, submitLog,
                   submitAnswers>>

(* --------------------------- specifications ---------------------------- *)
PrepareStep ==
    \E p \in PayIdx :
        \/ PrepareLookupFail(p)
        \/ PrepareDirectFail(p)
        \/ PrepareRelayFail(p)
        \/ PrepareSignFail(p)
        \/ PrepareNoteFail(p)
        \/ PrepareOk(p)

CollectStep == \E p \in PayIdx : Collect(p)

UpdateStep == \E txID \in UpdateTxIDs, status \in UpdateStatuses : StatusUpdate(txID, status)

ChatStep == \E t \in BagToSet(chatRunning) : ChatDone(t)

\* the steps of the goroutines of this Batch call
ProgramStep ==
    \/ LookupSenderFail
    \/ LookupSenderOk
    \/ PrepareStep
    \/ CollectStep
    \/ SortPrepared
    \/ GetListenerFail
    \/ GetListenerOk
    \/ SubmitSkip
    \/ SubmitBegin
    \/ SubmitEnd
    \/ LoopExit
    \/ Finish

Next ==
    \/ ProgramStep
    \/ Tick
    \/ TimerFire
    \/ UpdateStep
    \/ ChatStep

Spec == Init /\ [][Next]_vars

\* time passes, a ready timer case is taken, RPCs return and goroutines run;
\* nothing is assumed of the status updates
FairSpec ==
    /\ Spec
    /\ WF_vars(Tick)
    /\ WF_vars(TimerFire)
    /\ WF_vars(ProgramStep)
    /\ WF_vars(ChatStep)

(* ----------------------- deterministic collaborators -------------------- *)

\* the status stream of a ledger that completes every pending transaction
DetUpdate == \E txID \in DOMAIN waiting : StatusUpdate(txID, PaymentStatus_COMPLETED)

\* Batch with collaborators whose answers are fixed: the sender and every
\* recipient resolve, every payment is signed, every submit is accepted as
\* pending and completed by the ledger before the deadline.  What remains
\* free is the scheduling of the prepare goroutines and of the chat goroutines.
DetNext ==
    \/ LookupSenderOk
    \/ \E p \in PayIdx : PrepareOk(p)
    \/ CollectStep
    \/ SortPrepared
    \/ GetListenerOk
    \/ SubmitBegin
    \/ SubmitEndWith("pending")
    \/ DetUpdate
    \/ LoopExit
    \/ ChatStep
    \/ Finish
    \/ Tick

DetSpec == Init /\ [][DetNext]_vars

(* --------------------------- the prepare stage -------------------------- *)

\* PrepareBatchPayments alone: the goroutines it starts and its collector
PrepNext ==
    \/ LookupSenderOk
    \/ PrepareStep
    \/ CollectStep
    \/ SortPrepared

\* every prepare goroutine that can run does run, and so does the collector
FairPrepSpec ==
    /\ Init
    /\ [][PrepNext]_vars
    /\ WF_vars(PrepareStep)
    /\ WF_vars(CollectStep)
    /\ WF_vars(SortPrepared)

(* ----------------------------- properties ------------------------------ *)

IsBegin(k) == submitLog[k].ev = "begin"

Returned == pc = "done" /\ err = "nil"

\* PrepareBatchPayments has returned its list
PreparedReturned == pc \notin {"lookup", "collect", "sort"} /\ preparedList # << >>

\* C1: submit RPCs are issued one at a time and in strictly ascending seqno
\* order: of any two submits, the one issued first has the smaller seqno and
\* has completed before the other begins.
C1_SerialAscending ==
    \A a, b \in 1..Len(submitLog) :
        (a < b /\ IsBegin(a) /\ IsBegin(b)) =>
            /\ submitLog[a].seqno < submitLog[b].seqno
            /\ \E e \in (a + 1)..(b - 1) :
                 submitLog[e] = [ev |-> "end", seqno |-> submitLog[a].seqno]

\* two payments were submitted, and the second payment was given its seqno
\* before the first one
C1_Witness ==
    /\ Len(submitLog) >= 4
    /\ taskRes[1].Seqno > taskRes[2].Seqno
    /\ taskRes[2].Seqno > 0

\* C2: the i-th entry of the returned result.payments carries the username of
\* the i-th input payment.
C2_InputOrder ==
    Returned =>
        \A k \in 1..Len(res.Payments) :
            res.Payments[k].Username = NormalizedUsername(Payments[k].Recipient)

C4_DeadlineExits == (Looping /\ DeadlinePassed) ~> (pc = "done")

\* number of chat calls made for (recipient, txID)
SentCount(recipient, txID) ==
    CopiesIn([recipient |-> recipient, txID |-> txID], chatSent)

\* number of results that are COMPLETED with (username, txID)
CompletedCount(l, username, txID) ==
    Cardinality({k \in 1..Len(l) : /\ l[k].Status = PaymentStatus_COMPLETED
                                   /\ l[k].Username = username
                                   /\ l[k].TxID = txID})

ChatPairs ==
    {<<c.recipient, c.txID>> : c \in BagToSet(chatSent)}
    \cup {<<res.Payments[k].Username, res.Payments[k].TxID>> : k \in 1..Len(res.Payments)}

\* C5: when Batch returns, the chat notifications sent are exactly one per
\* COMPLETED payment, for its (username, txID).
C5_ChatPerCompleted ==
    Returned =>
        \A pr \in ChatPairs :
            SentCount(pr[1], pr[2]) = CompletedCount(res.Payments, pr[1], pr[2])

\* C6: a status, once set, changes only from PENDING to COMPLETED or ERROR.
C6_StatusMonotone ==
    [][ \A k \in 1..Len(resultList) :
          (resultList[k].Status # PaymentStatus_NONE
           /\ resultList'[k].Status # resultList[k].Status)
          => /\ resultList[k].Status = PaymentStatus_PENDING
             /\ resultList'[k].Status \in {PaymentStatus_COMPLETED, PaymentStatus_ERROR}
      ]_vars

\* an update has just arrived for a transaction whose result had been set to
\* ERROR by an earlier update, and the result is still ERROR
C6_Witness ==
    /\ lastOp.op = "update"
    /\ \E k \in 1..Len(resultList) :
         /\ resultList[k].TxID = lastOp.txID
         /\ resultList[k].Status = PaymentStatus_ERROR
         /\ resultList[k].EndTime < ToTimeMs(now)

\* C7: every key of waiting maps to an index whose result is PENDING.
C7_WaitingIsPending ==
    \A t \in DOMAIN waiting :
        /\ waiting[t] \in 1..Len(resultList)
        /\ resultList[waiting[t]].Status = PaymentStatus_PENDING

\* in the Confirmer loop, one entry has been removed by an update and another
\* is still waiting
C7_Witness ==
    /\ Looping
    /\ lastOp.op = "update"
    /\ \E k \in 1..Len(resultList) :
         /\ resultList[k].TxID = lastOp.txID
         /\ resultList[k].Status = PaymentStatus_COMPLETED
         /\ wg > 0
    /\ DOMAIN waiting # {}

\* this step is the receipt of a status update
UpdateArrives == lastOp'.op = "update"

\* C8: a waiting entry is inserted at submit time iff the submit returned a
\* pending acknowledgement; it is removed only in the Confirmer loop, exactly
\* when an update for its txID sets a status other than PENDING; it is never
\* inserted again; and once the deadline has fired no entry is removed and the
\* waiting results stay PENDING.
C8_WaitingLifecycle ==
    [][ /\ \A t \in (DOMAIN waiting') \ (DOMAIN waiting) :
             /\ pc = "submit" /\ inRPC
             /\ waiting'[t] = i
             /\ resultList'[i].TxID = t
             /\ resultList'[i].Status = PaymentStatus_PENDING
        /\ (pc = "submit" /\ inRPC /\ resultList'[i].Status = PaymentStatus_PENDING)
             => (/\ resultList'[i].TxID \in (DOMAIN waiting') \ (DOMAIN waiting)
                 /\ waiting'[resultList'[i].TxID] = i)
        /\ \A t \in DOMAIN waiting :
             /\ t \notin DOMAIN waiting'
                  <=> (/\ Looping
                       /\ UpdateArrives
                       /\ lastOp'.txID = t
                       /\ resultList'[waiting[t]].Status # PaymentStatus_PENDING)
             /\ t \in DOMAIN waiting' => waiting'[t] = waiting[t]
        /\ pc \in {"confirm", "chatwait", "done"} => (DOMAIN waiting') \subseteq (DOMAIN waiting)
        /\ timedOut =>
             /\ waiting' = waiting
             /\ \A t \in DOMAIN waiting :
                  resultList'[waiting[t]].Status = PaymentStatus_PENDING
      ]_vars

\* Batch has returned after the deadline fired: one entry was removed by a
\* COMPLETED update, another is still in waiting and its result is PENDING
C8_Witness ==
    /\ Returned
    /\ timedOut
    /\ DOMAIN waiting # {}
    /\ \E k \in 1..Len(resultList) :
         /\ resultList[k].Status = PaymentStatus_COMPLETED
         /\ SentCount(resultList[k].Username, resultList[k].TxID) = 1

\* C9: when Batch has returned from the normal path (res.EndTime recorded,
\* statistics computed), no chat goroutine is still running.
C9_ChatBarrier == Returned => (BagToSet(chatRunning) = {} /\ wg = 0)

\* Batch has returned after two chat goroutines were started and ran
C9_Witness ==
    /\ Returned
    /\ \E c, d \in BagToSet(chatSent) : c # d

Terminal == {PaymentStatus_COMPLETED, PaymentStatus_ERROR}

\* C10: avgDurationMs is the summed duration of the terminal payments divided
\* by their number, and 0 when no payment is terminal.
C10_AvgOverTerminal ==
    Returned =>
        res.AvgDurationMs =
            IF CountStatus(res.Payments, Terminal) > 0
            THEN Quot(SumDuration(res.Payments, Terminal),
                      CountStatus(res.Payments, Terminal))
            ELSE 0

\* C11: every result whose status has been set satisfies: PENDING implies a
\* transaction id is present and the end time is still zero; COMPLETED or
\* ERROR implies the end time is non-zero.
C11_StatusFields ==
    \A l \in {resultList, res.Payments} : \A k \in 1..Len(l) :
        /\ l[k].Status = PaymentStatus_PENDING =>
               /\ l[k].TxID # EmptyTxID
               /\ l[k].EndTime = 0
        /\ l[k].Status \in Terminal => l[k].EndTime # 0

\* one payment is still PENDING while another was made terminal by an update
C11_Witness ==
    /\ lastOp.op = "update"
    /\ \E k \in 1..Len(resultList) :
         /\ resultList[k].TxID = lastOp.txID
         /\ resultList[k].Status \in Terminal
    /\ \E k \in 1..Len(resultList) : resultList[k].Status = PaymentStatus_PENDING

\* the results that are PENDING in list l
PendingIn(l) == {k \in 1..Len(l) : l[k].Status = PaymentStatus_PENDING}

\* C12: the step in which the timeout tick sets timedOut, and every step after
\* it, leaves every result as it was; each payment PENDING at that moment is
\* returned PENDING, with its txId and a zero end time, and is counted in
\* countPending and in neither countSuccess nor countError.
C12_TimeoutKeepsPending ==
    [][/\ timedOut' => resultList' = resultList
       /\ (timedOut' /\ pc' = "done") =>
            /\ res'.Payments = resultList
            /\ \A k \in PendingIn(resultList) :
                 /\ res'.Payments[k].TxID # EmptyTxID
                 /\ res'.Payments[k].TxID \in DOMAIN waiting
                 /\ res'.Payments[k].EndTime = 0
            /\ res'.CountPending = Cardinality(PendingIn(resultList))
            /\ res'.CountSuccess =
                 CountStatus(resultList, {PaymentStatus_COMPLETED})
            /\ res'.CountError = CountStatus(resultList, {PaymentStatus_ERROR})
            /\ res'.CountPending + res'.CountSuccess + res'.CountError
                 = Len(resultList)]_vars

\* Batch has returned after a timeout with one payment PENDING and one
\* payment failed
C12_Witness ==
    /\ Returned
    /\ timedOut
    /\ res.CountPending = 1
    /\ res.CountError >= 1
    /\ PendingIn(res.Payments) # {}

\* C13: RemoveListener is called only as Batch returns; a return after the
\* listener was acquired has called it exactly once and no longer holds the
\* subscription, a return before the acquisition has called it not at all.
C13_ReleasedOnce ==
    /\ pc # "done" => removeCalls = 0
    /\ pc = "done" =>
         \/ listener = "none" /\ removeCalls = 0
         \/ listener = "removed" /\ removeCalls = 1

\* Batch has returned through the timeout, after acquiring the listener
C13_Witness ==
    /\ pc = "done"
    /\ timedOut
    /\ listener = "removed"
    /\ removeCalls = 1

\* a result list without its timestamps
NoTimes(l) ==
    [k \in 1..Len(l) |->
       [Username |-> l[k].Username, TxID |-> l[k].TxID, Status |-> l[k].Status,
        StatusDescription |-> l[k].StatusDescription, Error |-> l[k].Error]]

\* what a completed payment to recipient p that was signed with seqno n
\* looks like in the result, timestamps apart
CompletedEntry(p, n) ==
    [Username |-> NormalizedUsername(Payments[p].Recipient), TxID |-> TxHash(n),
     Status |-> PaymentStatus_COMPLETED,
     StatusDescription |-> PaymentStatusRevMap(PaymentStatus_COMPLETED),
     Error |-> "nil"]

\* the payments returned by the run in which the prepare goroutines take
\* their sequence numbers in input order
InputOrderRun == [k \in PayIdx |-> CompletedEntry(k, k)]

PrepareErrs == {p \in PayIdx : taskRes[p].Error # "nil"}

\* the prepare tasks that have ended with a signed transaction
PrepareOks ==
    {p \in PayIdx : task[p] \in {"send", "done"} /\ taskRes[p].Error = "nil"}

\* the sequence numbers of the submit RPCs made so far
SubmittedSeqnos == {submitLog[k].seqno : k \in {e \in 1..Len(submitLog) : IsBegin(e)}}

\* C15: a payment that ends in a PrepareErr has consumed no sequence number,
\* whatever the cause: the provider has handed out exactly one number per
\* signed payment, and the submitted sequence numbers are contiguous.
C15_PrepareErrConsumesNoSeqno ==
    /\ spSeq = Cardinality(PrepareOks)
    /\ \A n \in SubmittedSeqnos : \A m \in 1..n :
         m \in {taskRes[p].Seqno : p \in PrepareOks}

\* C16: Batch returns a non-nil error only when the sender lookup fails.
C16_ErrorOnlyOnSenderLookup ==
    (pc = "done" /\ err # "nil") => err = "sender lookup failed"

\* C16 (amended): the step in which Batch returns gives a non-nil error
\* exactly when it returns from the sender lookup or from the listener
\* acquisition; every return made after the listener was acquired, whatever
\* failed while preparing, submitting or confirming, gives a nil error.
C16_ErrorOnLookupOrListener ==
    [][(pc # "done" /\ pc' = "done") =>
           /\ err' # "nil" <=> pc \in {"lookup", "listener"}
           /\ err' # "nil" => err' \in {"sender lookup failed", "GetListener failed"}
           /\ pc = "listener" <=> err' = "GetListener failed"]_vars

\* Batch has returned the listener's error, after a payment failed to prepare
C16_Witness ==
    /\ pc = "done"
    /\ err = "GetListener failed"
    /\ \E k \in 1..Len(preparedList) : preparedList[k].Error # "nil"

\* C17: when the sender lookup fails Batch returns that error with an empty
\* payments list; no prepare task was started, no sequence number handed out,
\* no listener acquired or released, no payment submitted, no chat sent.
C17_SenderLookupFailure ==
    (pc = "done" /\ err = "sender lookup failed") =>
        /\ res.Payments = << >>
        /\ \A p \in PayIdx : task[p] = "idle" /\ taskRes[p].Seqno = 0
        /\ spSeq = 0
        /\ preparedList = << >>
        /\ resultList = << >>
        /\ listener = "none"
        /\ removeCalls = 0
        /\ submitLog = << >>
        /\ submitAnswers = << >>
        /\ wg = 0
        /\ chatRunning = EmptyBag
        /\ chatSent = EmptyBag

\* Batch has returned the error of the sender lookup, with the end time set
C17_Witness ==
    /\ pc = "done"
    /\ err = "sender lookup failed"
    /\ res.EndTime # 0

\* the entries of list l that belong to input payment p
EntriesOf(l, p) ==
    {k \in 1..Len(l) : l[k].Username = NormalizedUsername(Payments[p].Recipient)}

IsBeginEvent(e) == e.ev = "begin"

IsOkEntry(e) == e.Error = "nil"

\* the sequence numbers of the submit RPCs in log, in the order they were made
BeginSeqnos(log) ==
    [k \in 1..Len(SelectSeq(log, IsBeginEvent)) |->
       SelectSeq(log, IsBeginEvent)[k].seqno]

\* the sequence numbers of the signed entries of l, in list order
OkSeqnos(l) ==
    [k \in 1..Len(SelectSeq(l, IsOkEntry)) |-> SelectSeq(l, IsOkEntry)[k].Seqno]

\* C19: the step in which the submit RPC of an entry fails stores a result
\* with status ERROR, a non-zero end time and the submit error, adds nothing
\* to the waiting set and moves on to the next entry; when the loop ends,
\* every signed entry after a failed one has been submitted too, in list order.
C19_SubmitFailureContinues ==
    [][/\ (submitAnswers' # submitAnswers /\ submitAnswers'[i] = "err") =>
            /\ resultList'[i].Status = PaymentStatus_ERROR
            /\ resultList'[i].EndTime # 0
            /\ resultList'[i].Error = "submit error"
            /\ waiting' = waiting
            /\ preparedList[i].TxID \notin DOMAIN waiting'
            /\ i' = i + 1
            /\ pc' = IF i < Len(preparedList) THEN "submit" ELSE "confirm"
       /\ (pc = "submit" /\ pc' = "confirm") =>
            BeginSeqnos(submitLog') = OkSeqnos(preparedList)]_vars

\* the submit RPC of the first entry failed and the second entry was
\* submitted after it
C19_Witness ==
    /\ 1 \in DOMAIN submitAnswers
    /\ submitAnswers[1] = "err"
    /\ 2 \in DOMAIN submitAnswers
    /\ BeginSeqnos(submitLog) = <<preparedList[1].Seqno, preparedList[2].Seqno>>

\* C20: a BatchResult returned with a nil error has one payment entry per
\* input payment.
C20_OneResultPerPayment ==
    Returned => Len(res.Payments) = Len(Payments)

\* Batch has returned a result for a batch in which every payment failed,
\* one while preparing and one in its submit RPC
C20_Witness ==
    /\ Returned
    /\ \E k \in 1..Len(res.Payments) : res.Payments[k].Error = "submit error"
    /\ \E k \in 1..Len(res.Payments) :
         res.Payments[k].Error \notin {"nil", "submit error"}

\* the results of list l with status s
WithStatus(l, s) == {k \in 1..Len(l) : l[k].Status = s}

\* C21: in a BatchResult returned without error countSuccess, countPending and
\* countError are the numbers of COMPLETED, PENDING and ERROR results, and
\* their sum is the number of payments.
C21_CountsSum ==
    Returned =>
        /\ res.CountSuccess = Cardinality(WithStatus(res.Payments, PaymentStatus_COMPLETED))
        /\ res.CountPending = Cardinality(WithStatus(res.Payments, PaymentStatus_PENDING))
        /\ res.CountError = Cardinality(WithStatus(res.Payments, PaymentStatus_ERROR))
        /\ res.CountSuccess + res.CountPending + res.CountError = Len(Payments)

\* a result has been returned with one payment completed and one failed
C21_Witness ==
    /\ Returned
    /\ res.CountSuccess = 1
    /\ res.CountError = 1
    /\ Len(res.Payments) = NumPayments

\* C22: the statusDescription of a result whose status has been set is the
\* label of its current status, in the submit stage, after every status
\* update and in the returned BatchResult.
C22_DescriptionIsLabel ==
    \A l \in {resultList, res.Payments} : \A k \in 1..Len(l) :
        l[k].Status # PaymentStatus_NONE =>
            l[k].StatusDescription = PaymentStatusRevMap(l[k].Status)

\* a result that was submitted as PENDING has been completed by a status
\* update and is returned with the label of COMPLETED
C22_Witness ==
    /\ Returned
    /\ \E k \in DOMAIN submitAnswers :
         /\ submitAnswers[k] = "pending"
         /\ res.Payments[k].Status = PaymentStatus_COMPLETED
         /\ res.Payments[k].StatusDescription = "COMPLETED"

C24_ForeignUpdateIgnored ==
    [][(UpdateArrives /\ lastOp'.txID \notin DOMAIN waiting) =>
           /\ resultList' = resultList
           /\ waiting' = waiting
           /\ waitingCount' = waitingCount
           /\ wg' = wg
           /\ chatRunning' = chatRunning
           /\ chatSent' = chatSent
           /\ res' = res
           /\ pc' = pc]_vars

\* the last step was an update for a transaction of this batch that had
\* reached its terminal status earlier, while another payment is waiting
C24_Witness ==
    /\ pc = "confirm"
    /\ lastOp.op = "update"
    /\ lastOp.txID # ForeignTxID
    /\ DOMAIN waiting # {}
    /\ \E k \in 1..Len(resultList) :
         /\ resultList[k].TxID = lastOp.txID
         /\ resultList[k].Status \in Terminal
         /\ resultList[k].EndTime # ToTimeMs(now)

\* C25: when the Confirmer loop is reached or re-entered with an empty waiting
\* set, the loop exit is the only step Batch can take: it does not suspend,
\* no timer tick is taken and no update is read from the listener channel.
C25_ExitWhenEmpty ==
    (pc = "confirm" /\ DOMAIN waiting = {}) =>
        /\ ENABLED LoopExit
        /\ ~ENABLED TimerFire
        /\ ~ENABLED UpdateStep
        /\ ~Suspended

\* the loop is left before the deadline: the last waiting payment has just
\* received its terminal update, no timeout was taken
C25_Witness ==
    /\ pc = "confirm"
    /\ DOMAIN waiting = {}
    /\ lastOp.op = "update"
    /\ ~timedOut
    /\ ~DeadlinePassed

\* C26: the result of every prepared payment whose submission was attempted
\* carries the prepared transaction id, whatever the submit RPC answered.
C26_TxIDOnSubmitAttempt ==
    \A k \in DOMAIN submitAnswers : resultList[k].TxID = preparedList[k].TxID

\* the messages of the two failures that end a prepare task before it reaches
\* the signing call: recipient lookup, and a relay amount below the minimum
EarlyErrors ==
    {"error looking up recipient",
     "you must send at least 2.01 XLM to fund the account"}

\* the prepare tasks that have ended in one of the early failures
EarlyErrs == {p \in PayIdx : taskRes[p].Error \in EarlyErrors}

\* C27: a payment whose recipient does not resolve or whose relay amount is
\* below the minimum takes no sequence number: when these are the only
\* failures, the provider has handed out one number per signed payment and
\* the signed payments hold the numbers 1..m that a batch of just them would
\* get; in the returned result the failed payment is ERROR with its message
\* and no transaction id, and every signed payment was submitted.
C27_EarlyErrorTakesNoSeqno ==
    /\ PrepareErrs = EarlyErrs =>
         /\ spSeq = Cardinality(PrepareOks)
         /\ {taskRes[p].Seqno : p \in PrepareOks} = 1..Cardinality(PrepareOks)
    /\ \A p \in EarlyErrs : taskRes[p].Seqno = 0 /\ taskRes[p].TxID = EmptyTxID
    /\ Returned =>
         /\ \A p \in EarlyErrs : \A k \in EntriesOf(res.Payments, p) :
              /\ res.Payments[k].Status = PaymentStatus_ERROR
              /\ res.Payments[k].Error = taskRes[p].Error
              /\ res.Payments[k].TxID = EmptyTxID
         /\ \A p \in PayIdx \ PrepareErrs : taskRes[p].Seqno \in SubmittedSeqnos

\* a result has been returned for a batch whose first payment failed in the
\* recipient lookup and whose second payment was submitted with the first
\* sequence number
C27_Witness ==
    /\ Returned
    /\ taskRes[1].Error = "error looking up recipient"
    /\ taskRes[2].Seqno = 1
    /\ 1 \in SubmittedSeqnos

\* C28: throughout the Confirmer loop waitingCount is the number of entries
\* of the waiting set and the number of PENDING results, and every PENDING
\* result is the target of exactly one entry, the one keyed by its own txId.
C28_WaitingCountConsistent ==
    pc = "confirm" =>
        /\ waitingCount = Cardinality(DOMAIN waiting)
        /\ waitingCount = Cardinality(PendingIn(resultList))
        /\ \A k \in PendingIn(resultList) :
             /\ {t \in DOMAIN waiting : waiting[t] = k} = {resultList[k].TxID}
        /\ \A t \in DOMAIN waiting : waiting[t] \in PendingIn(resultList)

\* in the loop two payments were waiting; one has received a terminal update
\* and one a PENDING update or none, so one entry is left
C28_Witness ==
    /\ pc = "confirm"
    /\ lastOp.op = "update"
    /\ waitingCount = 1
    /\ Cardinality({k \in DOMAIN submitAnswers : submitAnswers[k] = "pending"}) >= 2

\* C29: the listener subscription exists before the first submit RPC is made
\* and is held, unreleased, through the submit loop, the Confirmer loop and
\* the chat barrier; every status update is read while it is held.
C29_ListenerHeldAroundSubmits ==
    /\ submitLog # << >> => listener # "none"
    /\ inRPC => listener = "held"
    /\ pc \in {"submit", "confirm", "chatwait"} =>
         listener = "held" /\ removeCalls = 0
    /\ lastOp.op = "update" => listener = "held"

\* the first submit RPC is in flight and the subscription is held
C29_Witness ==
    /\ inRPC
    /\ Len(submitLog) = 1
    /\ IsBegin(1)
    /\ listener = "held"

\* the prepare tasks whose send on the channel was received
Received == {p \in PayIdx : task[p] = "done"}

\* C30: the collector has received exactly one result from each task whose
\* send has completed and none from the others, never more than n in all;
\* it returns only when all n tasks have sent; and once the tasks are started
\* the collector does return, with no task left blocked on its send.
C30_FanInExactlyOnce ==
    /\ [](/\ Len(preparedList) = Cardinality(Received)
          /\ Len(preparedList) <= NumPayments
          /\ \A p \in PayIdx :
               Cardinality(EntriesOf(preparedList, p)) =
                   IF p \in Received THEN 1 ELSE 0
          /\ pc \notin {"lookup", "collect"} => Received = PayIdx)
    /\ (pc = "collect") ~> (pc = "listener" /\ Received = PayIdx)

\* the collector has received all results, the one of the last payment first
C30_Witness ==
    /\ pc = "sort"
    /\ Received = PayIdx
    /\ preparedList[1].Username = NormalizedUsername(Payments[NumPayments].Recipient)

\* C31: when Batch has returned a non-nil error no submit RPC was made and no
\* chat task was started or has sent; and every entry the submit loop reads
\* is the value some prepare task returned, never an empty slot, so the loop
\* has no error return once it has started.
C31_ErrorReturnSubmitsNothing ==
    /\ (pc = "done" /\ err # "nil") =>
         /\ submitLog = << >>
         /\ submitAnswers = << >>
         /\ ~inRPC
         /\ wg = 0
         /\ chatRunning = EmptyBag
         /\ chatSent = EmptyBag
         /\ res.Payments = << >>
    /\ pc \in {"listener", "submit"} =>
         /\ Len(preparedList) = NumPayments
         /\ \A k \in 1..Len(preparedList) :
              \E p \in PayIdx : preparedList[k] = taskRes[p]
    /\ submitLog # << >> => err = "nil"

\* Batch has returned the listener's error although every payment was signed
C31_Witness ==
    /\ pc = "done"
    /\ err = "GetListener failed"
    /\ spSeq = NumPayments
    /\ \A k \in 1..Len(preparedList) : preparedList[k].Error = "nil"

====
